---- MODULE Spec2Model ----
(***************************************************************************)
(* Model of convert_tracklist.py: a script that loads a tracklist (YAML    *)
(* mapping or CSV table keyed by timestamp), sorts it and writes one text  *)
(* file per requested format (Main, Telegram, Lyrics, CUE).                *)
(*                                                                         *)
(* Python values are modelled as follows.                                  *)
(*   - a str that the code splits or parses (timestamps, file names) is a  *)
(*     sequence of one-character strings; Str() turns it into text;        *)
(*   - any other str is a TLA+ string, None is the marker NoneVal;         *)
(*   - a dict with str keys is a function whose DOMAIN is the key set; a   *)
(*     dict whose order matters (the tracklist, output_files) is a         *)
(*     sequence of its items in insertion order;                           *)
(*   - a call that may raise yields Return(v) or Raise(e).                 *)
(***************************************************************************)
EXTENDS Integers, Sequences, FiniteSets, TLC

VARIABLES
    pc,                \* where the script (or the harness) stands
    arguments,         \* the argparse namespace
    input_file,        \* the file at arguments.input: [name, is_file, content]
    selected_formats,  \* list of format names
    tracklist,         \* the dict the script holds in tracklist
    output_files,      \* output_files: the format members, in dict order
    files,             \* the output directory: file name -> lines written
    error,             \* "None", or the exception that ended the script
    parsed,            \* parse_input_file has been called
    loaded,            \* the tracklist as sort_tracklist returned it
    cursor,            \* the position of the loop at line 284 in output_files
    call,              \* harness: the function called and its arguments
    ret                \* harness: what the call returned or raised

vars == <<pc, arguments, input_file, selected_formats, tracklist,
          output_files, files, error, parsed, loaded, cursor, call, ret>>

-----------------------------------------------------------------------------
(* Bounds of the model.                                                    *)

\* longest timestamp string handed to the two timestamp functions
MaxLen == 4
\* most entries (rows or mapping items) of an input document
MaxRows == 3
\* most values given with the repeatable --format option
MaxFormatArgs == 1
\* most entries of a tracklist the format passes are run on
MaxTracks == 2

-----------------------------------------------------------------------------
(* Python values.                                                          *)

NoneVal == "<None>"

Return(v) == [exc |-> "None", val |-> v]

Raise(e) == [exc |-> e]

Raised(r) == r.exc # "None"

\* str(): the text of a character sequence
RECURSIVE Str(_)
Str(s) == IF s = <<>> THEN "" ELSE Head(s) \o Str(Tail(s))

\* "{}".format(v) of a str or None
Fmt(v) == IF v = NoneVal THEN "None" ELSE v

\* bool(v) of a str or None
Truthy(v) == v # NoneVal /\ v # ""

DigitVal ==
    [c \in {"0", "1", "2", "3", "4", "5", "6", "7", "8", "9"} |->
        CASE c = "0" -> 0 [] c = "1" -> 1 [] c = "2" -> 2 [] c = "3" -> 3
          [] c = "4" -> 4 [] c = "5" -> 5 [] c = "6" -> 6 [] c = "7" -> 7
          [] c = "8" -> 8 [] c = "9" -> 9]

IsDigits(s) == s # <<>> /\ \A i \in 1..Len(s) : s[i] \in DOMAIN DigitVal

RECURSIVE NatOf(_)
NatOf(s) ==
    IF s = <<>> THEN 0
    ELSE 10 * NatOf(SubSeq(s, 1, Len(s) - 1)) + DigitVal[s[Len(s)]]

\* int(s): an optional sign and then decimal digits, ValueError otherwise
\* (the characters of the model include no blank and no underscore)
int(s) ==
    LET signed == s # <<>> /\ s[1] \in {"-", "+"}
        body == IF signed THEN Tail(s) ELSE s
    IN  IF IsDigits(body)
        THEN Return(IF signed /\ s[1] = "-" THEN 0 - NatOf(body) ELSE NatOf(body))
        ELSE Raise("ValueError")

\* s.split(":")
RECURSIVE split(_)
split(s) ==
    IF \A i \in 1..Len(s) : s[i] # ":" THEN <<s>>
    ELSE LET k == CHOOSE i \in 1..Len(s) :
                      s[i] = ":" /\ \A j \in 1..(i - 1) : s[j] # ":"
         IN  <<SubSeq(s, 1, k - 1)>> \o split(SubSeq(s, k + 1, Len(s)))

\* f"{n:02d}"
fmt02d(n) == IF 0 <= n /\ n < 10 THEN "0" \o ToString(n) ELSE ToString(n)

-----------------------------------------------------------------------------
(* Timestamp functions.                                                    *)

timestamp_to_frames(timestamp) ==
    LET parts == split(timestamp)
    IN  IF Len(parts) = 2
        THEN LET minutes == int(parts[1])
                 seconds == int(parts[2])
             IN  IF Raised(minutes) THEN minutes
                 ELSE IF Raised(seconds) THEN seconds
                 ELSE Return(fmt02d(minutes.val) \o ":" \o fmt02d(seconds.val) \o ":00")
        ELSE Return("00:00:00")

timestamp_to_seconds(timestamp) ==
    LET parts == split(timestamp)
    IN  IF Len(parts) = 2
        THEN LET minutes == int(parts[1])
                 seconds == int(parts[2])
             IN  IF Raised(minutes) THEN minutes
                 ELSE IF Raised(seconds) THEN seconds
                 ELSE Return(minutes.val * 60 + seconds.val)
        ELSE Return(0)

-----------------------------------------------------------------------------
(* Formats and rendering.                                                  *)

\* enum TracklistFormats: member name -> value
TracklistFormats ==
    [Default |-> "Main", Telegram |-> "Telegram", Lyrics |-> "Lyrics", CUE |-> "CUE"]

\* TracklistHeaders: the members that have a header
TracklistHeaders == {"Telegram", "CUE"}

\* generate_track without the test of arguments.no_labels
generate_track_KeepsLabel(data, no_labels) ==
    IF "title" \notin DOMAIN data THEN Raise("KeyError")
    ELSE Return(
        (IF "artist" \in DOMAIN data THEN Fmt(data["artist"]) \o " - " ELSE "")
        \o data["title"]
        \o (IF "label" \in DOMAIN data /\ Truthy(data["label"])
            THEN " (" \o Fmt(data["label"]) \o ")" ELSE ""))

generate_track(data, no_labels) ==
    IF "title" \notin DOMAIN data THEN Raise("KeyError")
    ELSE Return(
        (IF "artist" \in DOMAIN data THEN Fmt(data["artist"]) \o " - " ELSE "")
        \o data["title"]
        \o (IF "label" \in DOMAIN data /\ Truthy(data["label"]) /\ ~no_labels
            THEN " (" \o Fmt(data["label"]) \o ")" ELSE ""))

\* the value of the CUE branch of generate_timestamp: four lines
CueBlock(timestamp, data) ==
    LET track_num == IF "track_num" \in DOMAIN data THEN data["track_num"] ELSE 1
        frames_timestamp == timestamp_to_frames(timestamp)
    IN  IF Raised(frames_timestamp) THEN frames_timestamp
        ELSE IF "title" \notin DOMAIN data \/ "artist" \notin DOMAIN data
        THEN Raise("KeyError")
        ELSE Return(<<"  TRACK " \o fmt02d(track_num) \o " AUDIO",
                      "    TITLE \"" \o Fmt(data["title"]) \o "\"",
                      "    PERFORMER \"" \o Fmt(data["artist"]) \o "\"",
                      "    INDEX 01 " \o frames_timestamp.val>>)

\* generate_timestamp returns text; the model keeps it as its lines
generate_timestamp(timestamp, data, format, no_labels) ==
    LET track == generate_track(data, no_labels)
    IN  IF format = "Telegram"
        THEN IF Raised(track) THEN track
             ELSE Return(<<Str(timestamp) \o " " \o track.val>>)
        ELSE IF format = "Lyrics"
        THEN IF Raised(track) THEN track
             ELSE Return(<<"[" \o Str(timestamp) \o ".00]" \o track.val>>)
        ELSE IF format = "CUE"
        THEN CueBlock(timestamp, data)
        ELSE IF Raised(track) THEN track
             ELSE Return(<<"[" \o Str(timestamp) \o "] " \o track.val>>)

-----------------------------------------------------------------------------
(* Loading: parse_input_file and sort_tracklist.                           *)
(* An input file is [name, is_file, content]. Its content is either a YAML *)
(* mapping in block style, [syntax |-> "yaml", items |-> <<[key, value]>>],*)
(* or a CSV table with the header timestamp,title,artist,label,            *)
(* [syntax |-> "csv", rows |-> <<row>>], a row mapping each column to its  *)
(* cell, NoneVal for a cell the row is too short to have.                  *)

\* str.lower() on the letters the file names of the model use
LowerChar(c) ==
    CASE c = "Y" -> "y" [] c = "A" -> "a" [] c = "M" -> "m" [] c = "L" -> "l"
      [] OTHER -> c

lower(s) == [i \in 1..Len(s) |-> LowerChar(s[i])]

\* pathlib.PurePath.suffix of a path that is a bare file name
suffix(name) ==
    LET dots == {i \in 1..Len(name) : name[i] = "."}
    IN  IF dots = {} THEN <<>>
        ELSE LET i == CHOOSE d \in dots : \A e \in dots : e <= d
             IN  IF 1 < i /\ i < Len(name) THEN SubSeq(name, i, Len(name))
                 ELSE <<>>

\* dict: the position of a key in the items of a dict, 0 if absent
KeyIndex(items, key) ==
    IF \E i \in 1..Len(items) : items[i].key = key
    THEN CHOOSE i \in 1..Len(items) : items[i].key = key
    ELSE 0

\* dict: d[key] = value keeps the position of a key that is there already
DictSet(items, key, value) ==
    LET i == KeyIndex(items, key)
    IN  IF i = 0 THEN Append(items, [key |-> key, value |-> value])
        ELSE [items EXCEPT ![i] = [key |-> key, value |-> value]]

RECURSIVE DictOf(_)
DictOf(pairs) ==
    IF pairs = <<>> THEN <<>>
    ELSE LET last == pairs[Len(pairs)]
         IN  DictSet(DictOf(SubSeq(pairs, 1, Len(pairs) - 1)), last.key, last.value)

\* the local input_format of parse_input_file
InputFormatOf(name) ==
    IF lower(suffix(name)) = <<".", "y", "a", "m", "l">> THEN "YAML" ELSE "CSV"

\* a loaded object: a dict with its items in insertion order, or a str
PyDict(items) == [type |-> "dict", items |-> items]

PyStr == [type |-> "str"]

\* yaml.safe_load: the mapping of a YAML document; CSV text read as YAML is
\* one plain scalar, a str
yaml_safe_load(content) ==
    IF content.syntax = "yaml" THEN Return(PyDict(DictOf(content.items)))
    ELSE Return(PyStr)

\* the csv.DictReader loop; a block-style YAML text read as CSV has a first
\* line that names no timestamp column, so row["timestamp"] fails on its
\* first row
csv_load(content) ==
    IF content.syntax = "csv"
    THEN Return(PyDict(DictOf([i \in 1..Len(content.rows) |->
            [key |-> content.rows[i].timestamp,
             value |-> [title |-> content.rows[i].title,
                        artist |-> content.rows[i].artist,
                        label |-> content.rows[i].label]]])))
    ELSE IF content.items = <<>> THEN Return(PyDict(<<>>))
    ELSE Raise("KeyError")

parse_input_file(file) ==
    IF InputFormatOf(file.name) = "YAML" THEN yaml_safe_load(file.content)
    ELSE csv_load(file.content)

\* the sort key of an item; sort_tracklist has checked that it parses
Seconds(item) == timestamp_to_seconds(item.key).val

\* sorted(): the items in ascending key order, equal keys in their order
RECURSIVE sorted(_)
sorted(items) ==
    IF items = <<>> THEN <<>>
    ELSE LET rest == sorted(SubSeq(items, 1, Len(items) - 1))
             x == items[Len(items)]
             n == Cardinality({i \in 1..Len(rest) : Seconds(rest[i]) <= Seconds(x)})
         IN  SubSeq(rest, 1, n) \o <<x>> \o SubSeq(rest, n + 1, Len(rest))

sort_tracklist(d) ==
    IF d.type # "dict" THEN Raise("AttributeError")
    ELSE IF \E i \in 1..Len(d.items) : Raised(timestamp_to_seconds(d.items[i].key))
    THEN Raise("ValueError")
    ELSE Return(PyDict(sorted(d.items)))

\* lines 279-280: parse, then sort
load(file) ==
    LET document == parse_input_file(file)
    IN  IF Raised(document) THEN document ELSE sort_tracklist(document.val)

-----------------------------------------------------------------------------
(* The format passes, lines 284-321.                                       *)

\* mimetypes.guess_type by extension, NoneVal when the extension is unknown
GuessType(ext) ==
    CASE ext \in {<<".", "m", "p", "3">>, <<".", "m", "p", "2">>} -> "audio/mpeg"
      [] ext = <<".", "w", "a", "v">> -> "audio/x-wav"
      [] ext \in {<<".", "a", "i", "f", "f">>, <<".", "a", "i", "f">>} -> "audio/x-aiff"
      [] OTHER -> NoneVal

\* arguments.audio_file is [given |-> FALSE] for None, else [given, name]
NoAudioFile(audio_file) == ~audio_file.given \/ audio_file.name = <<>>

detect_audio_type(audio_file) ==
    IF NoAudioFile(audio_file) THEN "MP3"
    ELSE LET ext == lower(suffix(audio_file.name))
             mime_type == GuessType(ext)
         IN  IF mime_type = "audio/mpeg" THEN "MP3"
             ELSE IF mime_type = "audio/x-wav" THEN "WAVE"
             ELSE IF mime_type = "audio/x-aiff" THEN "AIFF"
             ELSE IF ext \in {<<".", "m", "p", "3">>, <<".", "m", "p", "2">>} THEN "MP3"
             ELSE IF ext \in {<<".", "w", "a", "v">>, <<".", "w", "a", "v", "e">>} THEN "WAVE"
             ELSE IF ext \in {<<".", "a", "i", "f", "f">>, <<".", "a", "i", "f">>} THEN "AIFF"
             ELSE "MP3"

\* the header lines a pass writes first (lines 288-300), none for a format
\* without a header
Header(format, args) ==
    IF format \notin TracklistHeaders THEN <<>>
    ELSE IF format = "CUE"
    THEN LET audio_type == IF Truthy(args.audio_type) THEN args.audio_type
                           ELSE detect_audio_type(args.audio_file)
             file == IF args.audio_file.given THEN Str(args.audio_file.name)
                     ELSE "None"
         IN  <<"PERFORMER \"" \o args.mix_performer \o "\"",
               "TITLE \"" \o args.mix_title \o "\"",
               "FILE \"" \o file \o "\" " \o audio_type>>
    ELSE <<"**TRACKLIST**">>

\* lines 311-313 without the copy: track_num is set in the shared record
TrackData_NoCopy(tl, i, format) ==
    IF format = "CUE"
    THEN [tracklist |->
              [tl EXCEPT !.items[i].value = ("track_num" :> i) @@ tl.items[i].value],
          track_data |-> ("track_num" :> i) @@ tl.items[i].value]
    ELSE [tracklist |-> tl, track_data |-> tl.items[i].value]

\* lines 311-313: the record handed to generate_timestamp for entry i, and
\* the tracklist after these lines
TrackData(tl, i, format) ==
    IF format = "CUE"
    THEN [tracklist |-> tl,
          track_data |-> ("track_num" :> i) @@ tl.items[i].value]
    ELSE [tracklist |-> tl, track_data |-> tl.items[i].value]

\* the track loop from entry i on (lines 304-320): the lines written, the
\* exception that stopped it, and the tracklist afterwards
RECURSIVE WriteTracks(_, _, _, _, _)
WriteTracks(format, tl, i, no_labels, lines) ==
    IF i > Len(tl.items) THEN [tracklist |-> tl, lines |-> lines, exc |-> "None"]
    ELSE IF "title" \notin DOMAIN tl.items[i].value
    THEN [tracklist |-> tl, lines |-> lines, exc |-> "KeyError"]
    ELSE LET td == TrackData(tl, i, format)
             text == generate_timestamp(tl.items[i].key, td.track_data, format, no_labels)
         IN  IF Raised(text)
             THEN [tracklist |-> td.tracklist, lines |-> lines, exc |-> text.exc]
             ELSE WriteTracks(format, td.tracklist, i + 1, no_labels, lines \o text.val)

\* one iteration of the loop at line 284
WritePass(format, tl, args) ==
    WriteTracks(format, tl, 1, args.no_labels, Header(format, args))

\* line 269: the name of the output file of a format
OutputFile(format) == "Tracklist." \o TracklistFormats[format] \o ".txt"

-----------------------------------------------------------------------------
(* The script, top to bottom.                                              *)

\* getattr(namespace, name): the namespace holds the dest of every option
getattr_Resolves(namespace, name) ==
    IF name \in DOMAIN namespace THEN Return(namespace[name])
    ELSE IF name = "file" THEN Return(namespace["input"])
    ELSE Raise("AttributeError")

getattr(namespace, name) ==
    IF name \in DOMAIN namespace THEN Return(namespace[name])
    ELSE Raise("AttributeError")

\* lines 95-111: selected_formats, or exit(1)
SelectedFormats(args) ==
    LET with_main == IF args.main THEN Append(args.format, "Main") ELSE args.format
        with_telegram == IF args.telegram THEN Append(with_main, "Telegram")
                         ELSE with_main
        with_lyrics == IF args.lyrics THEN Append(with_telegram, "Lyrics")
                       ELSE with_telegram
    IN  IF args.cue /\ NoAudioFile(args.audio_file) THEN Raise("SystemExit")
        ELSE LET selected == IF args.cue THEN Append(with_lyrics, "CUE")
                             ELSE with_lyrics
             IN  Return(IF selected = <<>> THEN <<"Main">> ELSE selected)

\* line 266: TracklistFormats[format_type] looks a member up by its name
FormatEnums(selected) ==
    IF \E i \in 1..Len(selected) : selected[i] \notin DOMAIN TracklistFormats
    THEN Raise("KeyError")
    ELSE Return(selected)

\* lines 267-272: the keys of the dict output_files, each member once, in the
\* order of its first occurrence
RECURSIVE OutputFiles(_)
OutputFiles(format_enums) ==
    IF format_enums = <<>> THEN <<>>
    ELSE LET before == OutputFiles(SubSeq(format_enums, 1, Len(format_enums) - 1))
             last == format_enums[Len(format_enums)]
         IN  IF \E i \in 1..Len(before) : before[i] = last THEN before
             ELSE Append(before, last)

\* the loop at line 284 from position k on: the files written, the tracklist
\* afterwards and the exception that stopped the loop
RECURSIVE WritePasses(_, _, _, _, _)
WritePasses(outputs, k, tl, args, written) ==
    IF k > Len(outputs) THEN [files |-> written, tracklist |-> tl, exc |-> "None"]
    ELSE LET pass == WritePass(outputs[k], tl, args)
             now == (OutputFile(outputs[k]) :> pass.lines) @@ written
         IN  IF pass.exc # "None"
             THEN [files |-> now, tracklist |-> pass.tracklist, exc |-> pass.exc]
             ELSE WritePasses(outputs, k + 1, pass.tracklist, args, now)

\* what the script has done when it ends
Outcome(exc, did_parse, outputs, tl, written) ==
    [error |-> exc, parsed |-> did_parse, output_files |-> outputs,
     tracklist |-> tl, files |-> written]

\* lines 284-322, given the loaded tracklist
WriteAll(outputs, tl, passes) ==
    Outcome(passes.exc, TRUE, outputs, passes.tracklist, passes.files)

\* lines 279-322, given output_files
LoadAndWrite(outputs, tl, args) ==
    IF Raised(tl) THEN Outcome(tl.exc, TRUE, outputs, PyDict(<<>>), <<>>)
    ELSE WriteAll(outputs, tl.val, WritePasses(outputs, 1, tl.val, args, <<>>))

\* lines 266-322, given format_enums
OpenAndWrite(format_enums, args, file) ==
    IF Raised(format_enums)
    THEN Outcome(format_enums.exc, FALSE, <<>>, PyDict(<<>>), <<>>)
    ELSE LoadAndWrite(OutputFiles(format_enums.val), load(file), args)

\* lines 255-322, given the value of arguments.file
CheckAndWrite(path_file_input, args, selected, file) ==
    IF Raised(path_file_input)
    THEN Outcome(path_file_input.exc, FALSE, <<>>, PyDict(<<>>), <<>>)
    ELSE IF ~file.is_file
    THEN Outcome("SystemExit", FALSE, <<>>, PyDict(<<>>), <<>>)
    ELSE OpenAndWrite(FormatEnums(selected), args, file)

\* lines 255-322
ScriptBody(args, selected, file) ==
    CheckAndWrite(getattr(args, "file"), args, selected, file)

-----------------------------------------------------------------------------
(* Inputs of the model.                                                    *)

Absent == "<absent>"

\* the characters of the timestamp strings handed to the timestamp functions
Chars == {"0", "1", "5", ":", "x", "-"}

StringsUpTo(n) == UNION {[1..k -> Chars] : k \in 0..n}

\* a record: title, and artist and label unless Absent
Record(title, artist, label) ==
    ("title" :> title)
    @@ (IF artist = Absent THEN <<>> ELSE ("artist" :> artist))
    @@ (IF label = Absent THEN <<>> ELSE ("label" :> label))

Titles == {"Song", "T"}

Artists == {Absent, "", "Artist"}

Labels == {Absent, "", NoneVal, "Label"}

Records == {Record(t, a, l) : t \in Titles, a \in Artists, l \in Labels}

\* timestamps of entries, all of the form M:SS or MM:SS
EntryTimestamps ==
    {<<"0", ":", "3", "0">>, <<"1", ":", "0", "5">>, <<"0", "1", ":", "0", "5">>,
     <<"0", "1", ":", "3", "0">>}

TrackNums == {1, 3, 12}

\* timestamps of the entries of a document
DocTimestamps ==
    {<<"0", ":", "3", "0">>, <<"1", ":", "0", "5">>, <<"0", "1", ":", "0", "5">>}

\* an entry of a document: artist and label are text or Absent
Entries ==
    [timestamp : DocTimestamps, title : {"T"}, artist : {Absent, "A"},
     label : {Absent, "L"}]

\* documents of at most n entries
Docs(n) == UNION {[1..k -> Entries] : k \in 0..n}

\* the document written as a YAML mapping: an absent field has no key
YamlContent(doc) ==
    [syntax |-> "yaml",
     items |-> [i \in 1..Len(doc) |->
                  [key |-> doc[i].timestamp,
                   value |-> Record(doc[i].title, doc[i].artist, doc[i].label)]]]

\* the document written as a CSV table: an absent field is an empty cell
CsvContent(doc) ==
    [syntax |-> "csv",
     rows |-> [i \in 1..Len(doc) |->
                 [timestamp |-> doc[i].timestamp,
                  title |-> doc[i].title,
                  artist |-> IF doc[i].artist = Absent THEN "" ELSE doc[i].artist,
                  label |-> IF doc[i].label = Absent THEN "" ELSE doc[i].label]]]

YamlName == <<"t", ".", "y", "a", "m", "l">>

CsvName == <<"t", ".", "c", "s", "v">>

FileNames ==
    {YamlName, CsvName,
     <<"t", ".", "Y", "A", "M", "L">>, <<"t", ".", "Y", "a", "m", "l">>,
     <<"t", ".", "y", "m", "l">>, <<"t", ".", "Y", "M", "L">>,
     <<"t", ".", "t", "x", "t">>, <<"t">>, <<".", "y", "a", "m", "l">>}

YamlFile(doc) == [name |-> YamlName, is_file |-> TRUE, content |-> YamlContent(doc)]

CsvFile(doc) == [name |-> CsvName, is_file |-> TRUE, content |-> CsvContent(doc)]

\* the run configuration of the passes
PassArguments(no_labels, audio_file) ==
    [no_labels |-> no_labels, audio_file |-> audio_file, audio_type |-> NoneVal,
     mix_title |-> "DJ Mix", mix_performer |-> "Various Artists"]

NoAudio == [given |-> FALSE]

MixWav == [given |-> TRUE, name |-> <<"m", ".", "w", "a", "v">>]

-----------------------------------------------------------------------------
(* FnSpec: the timestamp and rendering functions, called on every input    *)
(* of the model.                                                           *)

Idle ==
    /\ pc = "harness"
    /\ arguments = [no_labels |-> FALSE]
    /\ input_file = [is_file |-> FALSE]
    /\ selected_formats = <<>>
    /\ tracklist = PyDict(<<>>)
    /\ output_files = <<>>
    /\ files = <<>>
    /\ error = "None"
    /\ parsed = FALSE
    /\ loaded = PyDict(<<>>)
    /\ cursor = 1

FnInit == Idle /\ call = [fn |-> "none"] /\ ret = Return("")

Harness == <<arguments, input_file, selected_formats, tracklist,
             output_files, files, error, parsed, loaded, cursor>>

CallTimestampToSeconds ==
    \E timestamp \in StringsUpTo(MaxLen) :
        /\ pc = "harness" /\ pc' = "returned"
        /\ call' = [fn |-> "timestamp_to_seconds", timestamp |-> timestamp]
        /\ ret' = timestamp_to_seconds(timestamp)
        /\ UNCHANGED Harness

CallTimestampToFrames ==
    \E timestamp \in StringsUpTo(MaxLen) :
        /\ pc = "harness" /\ pc' = "returned"
        /\ call' = [fn |-> "timestamp_to_frames", timestamp |-> timestamp]
        /\ ret' = timestamp_to_frames(timestamp)
        /\ UNCHANGED Harness

CallGenerateTrack ==
    \E data \in Records, no_labels \in BOOLEAN :
        /\ pc = "harness" /\ pc' = "returned"
        /\ call' = [fn |-> "generate_track", data |-> data, no_labels |-> no_labels]
        /\ ret' = generate_track(data, no_labels)
        /\ UNCHANGED Harness

CallGenerateTimestamp ==
    \E timestamp \in EntryTimestamps, data \in Records, n \in TrackNums,
       format \in DOMAIN TracklistFormats, no_labels \in BOOLEAN :
        LET track_data == IF format = "CUE" THEN ("track_num" :> n) @@ data ELSE data
        IN  /\ pc = "harness" /\ pc' = "returned"
            /\ call' = [fn |-> "generate_timestamp", timestamp |-> timestamp,
                        data |-> track_data, format |-> format,
                        no_labels |-> no_labels]
            /\ ret' = generate_timestamp(timestamp, track_data, format, no_labels)
            /\ UNCHANGED Harness

FnNext ==
    \/ CallTimestampToSeconds
    \/ CallTimestampToFrames
    \/ CallGenerateTrack
    \/ CallGenerateTimestamp

FnSpec == FnInit /\ [][FnNext]_vars

-----------------------------------------------------------------------------
(* Properties of the timestamp and rendering functions (FnSpec).           *)

Returned(fn) == pc = "returned" /\ call.fn = fn

\* a timestamp that splits on ":" into exactly two parts, both integers
TwoIntegers(timestamp) ==
    /\ Len(split(timestamp)) = 2
    /\ ~Raised(int(split(timestamp)[1]))
    /\ ~Raised(int(split(timestamp)[2]))

\* C4: timestamp_to_seconds and timestamp_to_frames return a value for every
\* timestamp string: minutes*60+seconds and "MM:SS:00" when the string splits
\* on ":" into two integers, 0 and "00:00:00" in every other case.
C4_TimestampFunctionsTotal ==
    /\ Returned("timestamp_to_seconds") =>
          ret = Return(IF TwoIntegers(call.timestamp)
                       THEN int(split(call.timestamp)[1]).val * 60
                            + int(split(call.timestamp)[2]).val
                       ELSE 0)
    /\ Returned("timestamp_to_frames") =>
          ret = Return(IF TwoIntegers(call.timestamp)
                       THEN fmt02d(int(split(call.timestamp)[1]).val) \o ":"
                            \o fmt02d(int(split(call.timestamp)[2]).val) \o ":00"
                       ELSE "00:00:00")

\* C6: generate_track returns the prefix "{artist} - " if the record has an
\* artist and no prefix otherwise, then the title, then the suffix
\* " ({label})" exactly when the record has a label that is not empty (nor
\* null) and no_labels is false.
C6_RenderTrack ==
    Returned("generate_track") =>
        LET data == call.data
            prefix == IF "artist" \in DOMAIN data THEN data.artist \o " - " ELSE ""
            label_suffix == IF /\ "label" \in DOMAIN data
                               /\ data.label \notin {"", NoneVal}
                               /\ ~call.no_labels
                            THEN " (" \o data.label \o ")" ELSE ""
        IN  ret = Return(prefix \o data.title \o label_suffix)

\* C6 witness: a record with artist and label rendered with no_labels set
C6_Witness ==
    /\ Returned("generate_track")
    /\ call.no_labels
    /\ call.data = [title |-> "Song", artist |-> "Artist", label |-> "Label"]
    /\ ret = Return("Artist - Song")

\* C7: the CUE rendering of every record and timestamp is the four lines
\* TRACK {num:02d} AUDIO, TITLE "{title}", PERFORMER "{artist}",
\* INDEX 01 {frames}; a record without artist gets PERFORMER "".
C7_CueBlock ==
    (Returned("generate_timestamp") /\ call.format = "CUE") =>
        LET data == call.data
            artist == IF "artist" \in DOMAIN data THEN data.artist ELSE ""
        IN  ret = Return(<<"  TRACK " \o fmt02d(data.track_num) \o " AUDIO",
                           "    TITLE \"" \o data.title \o "\"",
                           "    PERFORMER \"" \o artist \o "\"",
                           "    INDEX 01 " \o timestamp_to_frames(call.timestamp).val>>)

-----------------------------------------------------------------------------
(* LoadSpec: the loader (parse_input_file, sort_tracklist) called on every *)
(* document of the model, and the Main output of a loaded document.        *)

\* lines 279-321 for the one format Main: the lines of Tracklist.Main.txt
MainOutput(file, no_labels) ==
    LET tl == load(file)
    IN  IF Raised(tl) THEN tl
        ELSE LET pass == WritePass("Default", tl.val, PassArguments(no_labels, NoAudio))
             IN  IF pass.exc # "None" THEN Raise(pass.exc) ELSE Return(pass.lines)

CallParseInputFile ==
    \E name \in FileNames, doc \in Docs(1), content \in {"yaml", "csv"} :
        LET file == [name |-> name, is_file |-> TRUE,
                     content |-> IF content = "yaml" THEN YamlContent(doc)
                                 ELSE CsvContent(doc)]
        IN  /\ pc = "harness" /\ pc' = "returned"
            /\ call' = [fn |-> "parse_input_file", file |-> file]
            /\ ret' = parse_input_file(file)
            /\ UNCHANGED Harness

\* a YAML mapping names each key once; a CSV table may repeat a timestamp
CallLoad ==
    \E doc \in Docs(MaxRows), file \in {"yaml", "csv"} :
        /\ pc = "harness" /\ pc' = "returned"
        /\ file = "yaml" =>
              \A i, j \in 1..Len(doc) : i # j => doc[i].timestamp # doc[j].timestamp
        /\ call' = [fn |-> "load", doc |-> doc,
                    file |-> IF file = "yaml" THEN YamlFile(doc) ELSE CsvFile(doc)]
        /\ ret' = load(call'.file)
        /\ UNCHANGED Harness

CallMainOutput ==
    \E doc \in Docs(MaxRows), no_labels \in BOOLEAN :
        /\ pc = "harness" /\ pc' = "returned"
        /\ call' = [fn |-> "main_output", doc |-> doc, no_labels |-> no_labels]
        /\ ret' = [yaml |-> MainOutput(YamlFile(doc), no_labels),
                   csv |-> MainOutput(CsvFile(doc), no_labels)]
        /\ UNCHANGED Harness

LoadNext == CallParseInputFile \/ CallLoad \/ CallMainOutput

LoadSpec == FnInit /\ [][LoadNext]_vars

(* Properties of the loader (LoadSpec).                                    *)

\* the entries of a document as (timestamp, record) pairs, one per entry
Pairs(content) ==
    IF content.syntax = "yaml" THEN content.items
    ELSE [i \in 1..Len(content.rows) |->
            [key |-> content.rows[i].timestamp,
             value |-> [title |-> content.rows[i].title,
                        artist |-> content.rows[i].artist,
                        label |-> content.rows[i].label]]]

Orderings(n) == {f \in [1..n -> 1..n] : \A i, j \in 1..n : i # j => f[i] # f[j]}

\* items holds every pair once, ascending by seconds, equal seconds in the
\* order of pairs
IsStableSortOf(items, pairs) ==
    /\ Len(items) = Len(pairs)
    /\ \E f \in Orderings(Len(pairs)) :
          /\ \A i \in 1..Len(items) : items[i] = pairs[f[i]]
          /\ \A i, j \in 1..Len(items) :
                i < j => \/ Seconds(items[i]) < Seconds(items[j])
                         \/ Seconds(items[i]) = Seconds(items[j]) /\ f[i] < f[j]

\* C3: after loading, the tracklist holds every entry of the input document,
\* ascending by the seconds of its timestamp, entries with equal seconds in
\* their input order (so 1:05, 0:30, 1:05 loads as three entries).
C3_LoadKeepsAndSortsAll ==
    Returned("load") =>
        /\ ~Raised(ret)
        /\ IsStableSortOf(ret.val.items, Pairs(call.file.content))

\* C5: a document loaded from YAML and the same document loaded from CSV
\* give the same Main output.
C5_YamlCsvSameMain ==
    Returned("main_output") => ret.yaml = ret.csv

YamlSuffixes == {<<".", "y", "a", "m", "l">>, <<".", "y", "m", "l">>}

\* C8: a file whose extension is .yaml or .yml in any letter case is parsed
\* as YAML, a file with any other extension as CSV.
C8_FormatByExtension ==
    Returned("parse_input_file") =>
        ret = IF lower(suffix(call.file.name)) \in YamlSuffixes
              THEN yaml_safe_load(call.file.content)
              ELSE csv_load(call.file.content)

-----------------------------------------------------------------------------
(* Spec: a run of the script, from the parsed command line to its end.     *)

FormatChoices == {"Main", "Telegram", "Lyrics", "CUE"}

FormatArgs == UNION {[1..k -> FormatChoices] : k \in 0..MaxFormatArgs}

SampleDoc ==
    <<[timestamp |-> <<"1", ":", "0", "5">>, title |-> "T", artist |-> "A",
       label |-> "L"],
      [timestamp |-> <<"0", ":", "3", "0">>, title |-> "T", artist |-> "A",
       label |-> Absent]>>

MissingFile == [name |-> YamlName, is_file |-> FALSE, content |-> YamlContent(<<>>)]

InputFiles == {YamlFile(SampleDoc), CsvFile(SampleDoc), MissingFile}

Init ==
    /\ pc = "parsed_args"
    /\ input_file \in InputFiles
    /\ arguments \in
          [input : {input_file.name}, output_dir : {"."}, no_labels : BOOLEAN,
           audio_file : {NoAudio, MixWav}, audio_type : {NoneVal},
           mix_title : {"DJ Mix"}, mix_performer : {"Various Artists"},
           format : FormatArgs, main : BOOLEAN, telegram : BOOLEAN,
           lyrics : BOOLEAN, cue : BOOLEAN]
    /\ selected_formats = <<>>
    /\ tracklist = PyDict(<<>>)
    /\ output_files = <<>>
    /\ files = <<>>
    /\ error = "None"
    /\ parsed = FALSE
    /\ loaded = PyDict(<<>>)
    /\ cursor = 1
    /\ call = [fn |-> "none"]
    /\ ret = Return("")

\* lines 95-111
SelectFormats ==
    /\ pc = "parsed_args"
    /\ LET selected == SelectedFormats(arguments)
       IN  IF Raised(selected)
           THEN /\ pc' = "exited"
                /\ error' = selected.exc
                /\ UNCHANGED selected_formats
           ELSE /\ pc' = "checking_files"
                /\ selected_formats' = selected.val
                /\ UNCHANGED error
    /\ UNCHANGED <<arguments, input_file, tracklist, output_files, files, parsed,
                   loaded, cursor, call, ret>>

\* lines 255-322
RunScriptBody ==
    /\ pc = "checking_files"
    /\ \E end \in {ScriptBody(arguments, selected_formats, input_file)} :
           /\ pc' = IF end.error = "None" THEN "done" ELSE "exited"
           /\ error' = end.error
           /\ parsed' = end.parsed
           /\ output_files' = end.output_files
           /\ tracklist' = end.tracklist
           /\ files' = end.files
    /\ UNCHANGED <<arguments, input_file, selected_formats, loaded, cursor, call, ret>>

Next == SelectFormats \/ RunScriptBody

Spec == Init /\ [][Next]_vars

\* the exit status of the process: 1 after exit(1) and after an exception
\* nobody catches
ExitStatus == IF error = "None" THEN 0 ELSE 1

Terminated == pc \in {"done", "exited"}

-----------------------------------------------------------------------------
(* PassSpec: the loop at line 284, from the state in which line 283 leaves *)
(* the script: a loaded and sorted tracklist, and output_files holding     *)
(* some of the format members in some order.                               *)

PassEntries ==
    [timestamp : DocTimestamps, title : {"T"}, artist : {Absent, "A"}, label : {"L"}]

PassDocs == UNION {[1..k -> PassEntries] : k \in 0..MaxTracks}

\* the tracklists that loading a document of the model yields
Tracklists ==
    {load(file).val : file \in {f \in {YamlFile(doc) : doc \in PassDocs}
                                      \cup {CsvFile(doc) : doc \in PassDocs} :
                                   ~Raised(load(f))}}

\* the possible output_files: dicts keyed by distinct format members
OutputOrders ==
    {order \in UNION {[1..k -> DOMAIN TracklistFormats] : k \in 1..4} :
        \A i, j \in 1..Len(order) : i # j => order[i] # order[j]}

PassInit ==
    /\ pc = "writing"
    /\ input_file = [is_file |-> TRUE]
    /\ arguments \in {PassArguments(no_labels, MixWav) : no_labels \in BOOLEAN}
    /\ selected_formats = <<>>
    /\ tracklist \in Tracklists
    /\ loaded = tracklist
    /\ output_files \in OutputOrders
    /\ files = <<>>
    /\ error = "None"
    /\ parsed = TRUE
    /\ cursor = 1
    /\ call = [fn |-> "none"]
    /\ ret = Return("")

\* lines 284-321: one iteration of the loop over output_files
FormatPass ==
    /\ pc = "writing"
    /\ cursor <= Len(output_files)
    /\ LET pass == WritePass(output_files[cursor], tracklist, arguments)
       IN  /\ files' = (OutputFile(output_files[cursor]) :> pass.lines) @@ files
           /\ tracklist' = pass.tracklist
           /\ error' = pass.exc
           /\ IF pass.exc # "None"
              THEN pc' = "exited" /\ UNCHANGED cursor
              ELSE pc' = "writing" /\ cursor' = cursor + 1
    /\ UNCHANGED <<arguments, input_file, selected_formats, output_files, parsed,
                   loaded, call, ret>>

\* line 322
AllWritten ==
    /\ pc = "writing"
    /\ cursor > Len(output_files)
    /\ pc' = "done"
    /\ UNCHANGED <<arguments, input_file, selected_formats, tracklist,
                   output_files, files, error, parsed, loaded, cursor, call, ret>>

PassNext == FormatPass \/ AllWritten

PassSpec == PassInit /\ [][PassNext]_vars

-----------------------------------------------------------------------------
(* Properties of a run (Spec).                                             *)

CueRequested ==
    arguments.cue \/ \E i \in 1..Len(arguments.format) : arguments.format[i] = "CUE"

\* the values of the formats asked for, Main when none is
RequestedValues ==
    LET asked == {arguments.format[i] : i \in 1..Len(arguments.format)}
                 \cup (IF arguments.main THEN {"Main"} ELSE {})
                 \cup (IF arguments.telegram THEN {"Telegram"} ELSE {})
                 \cup (IF arguments.lyrics THEN {"Lyrics"} ELSE {})
                 \cup (IF arguments.cue THEN {"CUE"} ELSE {})
    IN  IF asked = {} THEN {"Main"} ELSE asked

\* C1: when CUE is asked for (with --format CUE or with --cue) and no audio
\* file is given, the run never opens an output file nor parses the input,
\* and it does not end in Done: when it has ended, its status is a failure.
CueWithoutAudio == CueRequested /\ NoAudioFile(arguments.audio_file)

C2_EveryFormatWritten ==
    (/\ Terminated
     /\ input_file.is_file
     /\ CueRequested => ~NoAudioFile(arguments.audio_file)) =>
        /\ pc = "done"
        /\ DOMAIN files = {"Tracklist." \o v \o ".txt" : v \in RequestedValues}

-----------------------------------------------------------------------------
(* Properties of the format passes (PassSpec).                             *)

\* the lines the claims expect for entry i in a pass of a format
ExpectedLines(format, i) ==
    LET item == loaded.items[i]
    IN  IF format = "CUE"
        THEN <<"  TRACK " \o fmt02d(i) \o " AUDIO",
               "    TITLE \"" \o item.value.title \o "\"",
               "    PERFORMER \"" \o (IF "artist" \in DOMAIN item.value
                                     THEN item.value.artist ELSE "") \o "\"",
               "    INDEX 01 " \o timestamp_to_frames(item.key).val>>
        ELSE generate_timestamp(item.key, item.value, format, arguments.no_labels).val

RECURSIVE ExpectedTracks(_, _)
ExpectedTracks(format, n) ==
    IF n = 0 THEN <<>> ELSE ExpectedTracks(format, n - 1) \o ExpectedLines(format, n)

C10_PassesLeaveTracklist ==
    /\ tracklist = loaded
    /\ \A k \in 1..Len(output_files) :
          OutputFile(output_files[k]) \in DOMAIN files =>
              files[OutputFile(output_files[k])] =
                  WritePass(output_files[k], loaded, arguments).lines

\* C10 witness: a CUE pass over two entries, then a Main pass, both written
C10_Witness ==
    /\ pc = "done"
    /\ output_files = <<"CUE", "Default">>
    /\ Len(loaded.items) = 2
    /\ tracklist = loaded
    /\ Len(files[OutputFile("CUE")]) = 11
    /\ Len(files[OutputFile("Default")]) = 2

====
